---------------------------- MODULE Spec2Model ----------------------------
(***************************************************************************)
(* The transaction execution core of runtime/src/runtime.rs: the registry *)
(* of instruction processors, the account-subset view, the instruction    *)
(* executor with its post-state verification, and the transaction         *)
(* executor's loop.                                                      *)
(*                                                                       *)
(* Indices are 0-based as in the source; At(s, i) reads element i of a    *)
(* Rust slice held in a TLA+ sequence.  A mutable reference is modelled   *)
(* as the slot it points to.  A handler is an external collaborator: its  *)
(* behaviour is an arbitrary choice of a value for every account it is    *)
(* given and of a return value.                                           *)
(***************************************************************************)
EXTENDS Integers, Sequences, FiniteSets, TLC

VARIABLES
    instruction_processors, \* Runtime.instruction_processors (program ids)
    tx,                     \* the transaction passed to execute_transaction
    loaders,                \* loaders: one sequence of executable accounts per slot
    tx_accounts,            \* tx_accounts: the transaction's account array
    status,                 \* position of execute_transaction
    instruction_index,      \* the loop variable of execute_transaction
    result,                 \* what execute_transaction returned
    last                    \* record of the latest loop iteration (history)

vars == <<instruction_processors, tx, loaders, tx_accounts, status,
          instruction_index, result, last>>

-----------------------------------------------------------------------------
(* Bounds and domains *)

\* Largest balance of the model; it stands for u64::MAX.
MaxLamports == 2
\* Number of transactions a run of the long specification can be as long as,
\* counted above U8Mod.
ExtraInstructions == 1
\* Most entries the registry grows to.
MaxProcessors == 2
\* The longest account-index list given to get_subset_unchecked_mut alone
MaxList == 3

\* Balances are u64: arithmetic on them is modulo U64Mod.
U64Mod == MaxLamports + 1
\* `instruction_index as u8` keeps the low 8 bits.
U8Mod == 256
\* verify_error truncates a custom error to this many bytes.
MaxCustomError == 32

system_program == "system"
alice_program_id == "alice"
mallory_program_id == "mallory"
Pubkeys == {system_program, alice_program_id, mallory_program_id}

Lamports == 0..MaxLamports
DataValues == {<<>>, <<42>>}

\* solana_sdk Account: (owner, lamports, data)
Account(o, l, d) == [owner |-> o, lamports |-> l, data |-> d]
AccountValues == [owner : Pubkeys, lamports : Lamports, data : DataValues]

\* What a handler writes into an executable (loader) account.
ExecValues == {Account(system_program, 0, <<>>), Account(system_program, 1, <<>>)}

At(s, i) == s[i + 1]
Min(a, b) == IF a < b THEN a ELSE b

\* A payload of n bytes, 1, 2, .., n (vec![1, 2, 3]).
Bytes(n) == [k \in 1..n |-> k]

\* InstructionError
Err(kind) == [kind |-> kind, error |-> <<>>]
CustomError(bytes) == [kind |-> "CustomError", error |-> bytes]
NoError == Err("none")

\* What a handler may return: Ok or an InstructionError.
HandlerErrors == {Err("GenericError"), CustomError(Bytes(3)),
                  CustomError(Bytes(MaxCustomError + 1))}
HandlerReturns == {NoError} \cup HandlerErrors

-----------------------------------------------------------------------------
(* Pure functions of runtime.rs *)

\* has_duplicates comparing neighbours only.
has_duplicates_adjacent(xs) ==
    \E i \in 1..(Len(xs) - 1) : xs[i + 1] = xs[i]

\* has_duplicates: for i in 1..len, does xs[i..] contain xs[i - 1]?
has_duplicates(xs) ==
    \E i \in 1..(Len(xs) - 1) : \E j \in (i + 1)..Len(xs) : xs[j] = xs[i]

\* get_subset_unchecked_mut without its duplicate check.
get_subset_unchecked_mut_no_check(xs, indexes) ==
    [err |-> NoError, panicked |-> \E k \in 1..Len(indexes) : indexes[k] >= Len(xs),
     refs |-> [k \in 1..Len(indexes) |-> indexes[k]]]

\* get_subset_unchecked_mut taking the k-th element of xs for the k-th index
\* instead of the element the index names.
get_subset_unchecked_mut_by_position(xs, indexes) ==
    IF has_duplicates(indexes)
    THEN [err |-> Err("DuplicateAccountIndex"), panicked |-> FALSE, refs |-> <<>>]
    ELSE IF \E k \in 1..Len(indexes) : indexes[k] >= Len(xs)
    THEN [err |-> NoError, panicked |-> TRUE, refs |-> <<>>]
    ELSE [err |-> NoError, panicked |-> FALSE,
          refs |-> [k \in 1..Len(indexes) |-> k - 1]]

\* get_subset_unchecked_mut: the references are the slots the indexes name;
\* an index outside xs faults (xs[*i as usize]).
get_subset_unchecked_mut(xs, indexes) ==
    IF has_duplicates(indexes)
    THEN [err |-> Err("DuplicateAccountIndex"), panicked |-> FALSE, refs |-> <<>>]
    ELSE IF \E k \in 1..Len(indexes) : indexes[k] >= Len(xs)
    THEN [err |-> NoError, panicked |-> TRUE, refs |-> <<>>]
    ELSE [err |-> NoError, panicked |-> FALSE,
          refs |-> [k \in 1..Len(indexes) |-> indexes[k]]]

check_id(program_id) == program_id = system_program

\* verify_instruction without the owner rule.
verify_instruction_no_owner_rule(program_id, pre_program_id, pre_lamports, pre_data, account) ==
    IF program_id # account.owner /\ pre_lamports > account.lamports
    THEN Err("ExternalAccountLamportSpend")
    ELSE IF /\ program_id # account.owner
            /\ ~check_id(program_id)
            /\ pre_data # account.data
    THEN Err("ExternalAccountDataModified")
    ELSE NoError

\* verify_instruction with an owner rule that lets the previous owner reassign.
verify_instruction_owner_reassigns(program_id, pre_program_id, pre_lamports, pre_data, account) ==
    IF /\ pre_program_id # account.owner
       /\ ~check_id(program_id)
       /\ pre_program_id # program_id
    THEN Err("ModifiedProgramId")
    ELSE IF program_id # account.owner /\ pre_lamports > account.lamports
    THEN Err("ExternalAccountLamportSpend")
    ELSE IF /\ program_id # account.owner
            /\ ~check_id(program_id)
            /\ pre_data # account.data
    THEN Err("ExternalAccountDataModified")
    ELSE NoError

\* verify_instruction without the data rule.
verify_instruction_no_data_rule(program_id, pre_program_id, pre_lamports, pre_data, account) ==
    IF pre_program_id # account.owner /\ ~check_id(program_id)
    THEN Err("ModifiedProgramId")
    ELSE IF program_id # account.owner /\ pre_lamports > account.lamports
    THEN Err("ExternalAccountLamportSpend")
    ELSE NoError

\* verify_instruction with the balance rule tried before the owner rule.
verify_instruction_spend_first(program_id, pre_program_id, pre_lamports, pre_data, account) ==
    IF program_id # account.owner /\ pre_lamports > account.lamports
    THEN Err("ExternalAccountLamportSpend")
    ELSE IF pre_program_id # account.owner /\ ~check_id(program_id)
    THEN Err("ModifiedProgramId")
    ELSE IF /\ program_id # account.owner
            /\ ~check_id(program_id)
            /\ pre_data # account.data
    THEN Err("ExternalAccountDataModified")
    ELSE NoError

verify_instruction(program_id, pre_program_id, pre_lamports, pre_data, account) ==
    IF pre_program_id # account.owner /\ ~check_id(program_id)
    THEN Err("ModifiedProgramId")
    ELSE IF program_id # account.owner /\ pre_lamports > account.lamports
    THEN Err("ExternalAccountLamportSpend")
    ELSE IF /\ program_id # account.owner
            /\ ~check_id(program_id)
            /\ pre_data # account.data
    THEN Err("ExternalAccountDataModified")
    ELSE NoError

\* verify_error without the truncation.
verify_error_no_truncate(err) == err

\* verify_error keeping the last 32 bytes of a custom error instead of the first.
verify_error_keeps_tail(err) ==
    IF err.kind = "CustomError"
    THEN CustomError(SubSeq(err.error,
                            Len(err.error) - Min(MaxCustomError, Len(err.error)) + 1,
                            Len(err.error)))
    ELSE err

\* verify_error: Vec::truncate(32) on a custom error, every other kind as is.
verify_error(err) ==
    IF err.kind = "CustomError"
    THEN CustomError(SubSeq(err.error, 1, Min(MaxCustomError, Len(err.error))))
    ELSE err

\* Transaction::program_id(instruction_index)
program_id_of(t, i) == At(t.program_ids, At(t.instructions, i).program_ids_index)

RECURSIVE SeqSum(_)
SeqSum(s) == IF s = <<>> THEN 0 ELSE Head(s) + SeqSum(Tail(s))

\* program_accounts.iter().map(|a| a.lamports): the balances behind the references
lamports_of(accounts, program_accounts) ==
    [k \in 1..Len(program_accounts) |-> At(accounts, program_accounts[k]).lamports]

\* Iterator::sum::<u64>(): with overflow checks the build panics when the sum
\* leaves u64, without them it wraps.
sum_u64(balances, overflow_checks) ==
    LET exact == SeqSum(balances)
    IN  [panicked |-> overflow_checks /\ exact >= U64Mod, value |-> exact % U64Mod]

-----------------------------------------------------------------------------
(* Runtime::process_instruction *)

\* A keyed account: the is-signer flag and the account slot its mutable
\* reference points to.
KeyedAccount(is_signer, array, slot) ==
    [is_signer |-> is_signer, array |-> array, slot |-> slot]

\* create_keyed_accounts(executable_accounts): one per loader account, none a signer
create_keyed_accounts(executable_accounts) ==
    [k \in 1..Len(executable_accounts) |->
        KeyedAccount(FALSE, "executable_accounts", k - 1)]

\* keyed_accounts2: the instruction's account indexes zipped with the references
keyed_accounts2(t, i, program_accounts) ==
    LET indexes == At(t.instructions, i).accounts
    IN  [k \in 1..Min(Len(indexes), Len(program_accounts)) |->
            KeyedAccount(indexes[k] < t.num_signatures, "tx_accounts", program_accounts[k])]

\* The lookup taking the last entry for program_id instead of the first.
first_processor_last(registry, program_id) ==
    LET found == {k \in 1..Len(registry) : registry[k] = program_id}
    IN  IF found = {} THEN 0 ELSE CHOOSE k \in found : \A j \in found : j <= k

\* Position in the registry of the first entry for program_id, 0 when there is none.
first_processor(registry, program_id) ==
    LET found == {k \in 1..Len(registry) : registry[k] = program_id}
    IN  IF found = {} THEN 0 ELSE CHOOSE k \in found : \A j \in found : k <= j

\* The call process_instruction makes: which handler (a registry position, or 0
\* for native_loader::entrypoint) and the keyed-account slice it is given.
\* &mut keyed_accounts[1..] faults on an empty vector.
dispatch(registry, t, i, executable_accounts, program_accounts) ==
    LET keyed_accounts == create_keyed_accounts(executable_accounts)
                          \o keyed_accounts2(t, i, program_accounts)
        handler == first_processor(registry, program_id_of(t, i))
    IN  IF handler # 0
        THEN IF keyed_accounts = <<>>
             THEN [panicked |-> TRUE, handler |-> handler, slice |-> <<>>]
             ELSE [panicked |-> FALSE, handler |-> handler, slice |-> Tail(keyed_accounts)]
        ELSE [panicked |-> FALSE, handler |-> 0, slice |-> keyed_accounts]

\* The behaviours of a handler given `slice`: a value for every account of
\* the slice (loader accounts and transaction accounts apart) and a return value.
of_array(slice, array) == {k \in 1..Len(slice) : slice[k].array = array}
Behaviours(slice) ==
    [exec : [1..Cardinality(of_array(slice, "executable_accounts")) -> ExecValues],
     acct : [1..Cardinality(of_array(slice, "tx_accounts")) -> AccountValues],
     ret  : HandlerReturns]
Silent == [exec |-> <<>>, acct |-> <<>>, ret |-> NoError]

\* The value behaviour h leaves in the account behind element k of the slice.
written(slice, h, k) ==
    LET rank == Cardinality({j \in 1..k : slice[j].array = slice[k].array})
    IN  IF slice[k].array = "executable_accounts" THEN h.exec[rank] ELSE h.acct[rank]

\* `array` after the handler wrote through the references of the slice, in
\* slice order.
write_through(array, name, slice, h) ==
    [j \in 1..Len(array) |->
        LET hits == {k \in of_array(slice, name) : slice[k].slot = j - 1}
        IN  IF hits = {} THEN array[j]
            ELSE written(slice, h, CHOOSE k \in hits : \A m \in hits : m <= k)]

-----------------------------------------------------------------------------
(* Runtime::execute_instruction *)

\* The verification loop going on after a failure: the error of the last
\* listed account that fails.
verify_accounts_last(program_id, pre_data, accounts, program_accounts) ==
    LET errs == [k \in 1..Min(Len(pre_data), Len(program_accounts)) |->
                    verify_instruction(program_id, pre_data[k].owner,
                                       pre_data[k].lamports, pre_data[k].data,
                                       At(accounts, program_accounts[k]))]
        bad == {k \in DOMAIN errs : errs[k] # NoError}
    IN  IF bad = {} THEN NoError
        ELSE errs[CHOOSE k \in bad : \A j \in bad : j <= k]

\* The verification loop: the error of the first listed account that fails
\* verify_instruction, NoError when every one passes.
verify_accounts(program_id, pre_data, accounts, program_accounts) ==
    LET errs == [k \in 1..Min(Len(pre_data), Len(program_accounts)) |->
                    verify_instruction(program_id, pre_data[k].owner,
                                       pre_data[k].lamports, pre_data[k].data,
                                       At(accounts, program_accounts[k]))]
        bad == {k \in DOMAIN errs : errs[k] # NoError}
    IN  IF bad = {} THEN NoError
        ELSE errs[CHOOSE k \in bad : \A j \in bad : k <= j]

\* execute_instruction without the comparison of the balance sums.
execute_instruction_no_balance_check(registry, t, i, executable_accounts, accounts, program_accounts, h, overflow_checks) ==
    LET program_id == program_id_of(t, i)
        pre_total == sum_u64(lamports_of(accounts, program_accounts), overflow_checks)
        pre_data == [k \in 1..Len(program_accounts) |-> At(accounts, program_accounts[k])]
        call == dispatch(registry, t, i, executable_accounts, program_accounts)
        post_accounts == write_through(accounts, "tx_accounts", call.slice, h)
        post_executable ==
            write_through(executable_accounts, "executable_accounts", call.slice, h)
        verified == verify_accounts(program_id, pre_data, post_accounts, program_accounts)
        post_total ==
            sum_u64(lamports_of(post_accounts, program_accounts), overflow_checks)
        Before(panicked) ==
            [panicked |-> panicked, err |-> NoError, invoked |-> FALSE,
             handler |-> call.handler, keyed_accounts |-> <<>>, handler_ret |-> NoError,
             tx_accounts |-> accounts, executable_accounts |-> executable_accounts]
        After(panicked, err) ==
            [panicked |-> panicked, err |-> err, invoked |-> TRUE,
             handler |-> call.handler, keyed_accounts |-> call.slice, handler_ret |-> h.ret,
             tx_accounts |-> post_accounts, executable_accounts |-> post_executable]
    IN  IF pre_total.panicked \/ call.panicked THEN Before(TRUE)
        ELSE IF h.ret # NoError THEN After(FALSE, verify_error(h.ret))
        ELSE IF verified # NoError THEN After(FALSE, verified)
        ELSE IF post_total.panicked THEN After(TRUE, NoError)
        ELSE After(FALSE, NoError)

\* execute_instruction of instruction i of t on the accounts behind
\* program_accounts, the handler behaving as h, in a build with or without
\* overflow checks.  The result: did it panic, the error it returned (NoError
\* for Ok), whether and how the handler was called, and the accounts it leaves.
execute_instruction(registry, t, i, executable_accounts, accounts, program_accounts, h, overflow_checks) ==
    LET program_id == program_id_of(t, i)
        pre_total == sum_u64(lamports_of(accounts, program_accounts), overflow_checks)
        pre_data == [k \in 1..Len(program_accounts) |-> At(accounts, program_accounts[k])]
        call == dispatch(registry, t, i, executable_accounts, program_accounts)
        post_accounts == write_through(accounts, "tx_accounts", call.slice, h)
        post_executable ==
            write_through(executable_accounts, "executable_accounts", call.slice, h)
        verified == verify_accounts(program_id, pre_data, post_accounts, program_accounts)
        post_total ==
            sum_u64(lamports_of(post_accounts, program_accounts), overflow_checks)
        Before(panicked) ==
            [panicked |-> panicked, err |-> NoError, invoked |-> FALSE,
             handler |-> call.handler, keyed_accounts |-> <<>>, handler_ret |-> NoError,
             tx_accounts |-> accounts, executable_accounts |-> executable_accounts]
        After(panicked, err) ==
            [panicked |-> panicked, err |-> err, invoked |-> TRUE,
             handler |-> call.handler, keyed_accounts |-> call.slice, handler_ret |-> h.ret,
             tx_accounts |-> post_accounts, executable_accounts |-> post_executable]
    IN  IF pre_total.panicked \/ call.panicked THEN Before(TRUE)
        ELSE IF h.ret # NoError THEN After(FALSE, verify_error(h.ret))
        ELSE IF verified # NoError THEN After(FALSE, verified)
        ELSE IF post_total.panicked THEN After(TRUE, NoError)
        ELSE IF pre_total.value # post_total.value
        THEN After(FALSE, Err("UnbalancedInstruction"))
        ELSE After(FALSE, NoError)

\* Does execute_instruction reach the handler?
invokes(registry, t, i, executable_accounts, accounts, program_accounts, overflow_checks) ==
    /\ ~sum_u64(lamports_of(accounts, program_accounts), overflow_checks).panicked
    /\ ~dispatch(registry, t, i, executable_accounts, program_accounts).panicked

-----------------------------------------------------------------------------
(* Runtime::execute_transaction *)

\* TransactionError::InstructionError(instruction_index as u8, err)
InstructionError(index, err) == [tag |-> "InstructionError", index |-> index % U8Mod, err |-> err]
Ok == [tag |-> "Ok", index |-> 0, err |-> NoError]
NoResult == [tag |-> "none", index |-> 0, err |-> NoError]

NoLast == [index |-> -1, program_accounts |-> <<>>, duplicate |-> FALSE,
           invoked |-> FALSE, handler |-> 0, keyed_accounts |-> <<>>,
           handler_ret |-> NoError, err |-> NoError, pre_accounts |-> <<>>,
           pre_loaders |-> <<>>, panicked |-> FALSE, calls |-> 0,
           entry_accounts |-> <<>>]

\* EndIteration with an error that is recorded while the loop goes on.
EndIteration_goes_on(subset, o) ==
    /\ tx_accounts' = o.tx_accounts
    /\ loaders' = [loaders EXCEPT
                     ![At(tx.instructions, instruction_index).program_ids_index + 1] =
                         o.executable_accounts]
    /\ last' = [index |-> instruction_index, program_accounts |-> subset.refs,
                duplicate |-> subset.err # NoError,
                invoked |-> o.invoked, handler |-> o.handler,
                keyed_accounts |-> o.keyed_accounts, handler_ret |-> o.handler_ret,
                err |-> o.err, pre_accounts |-> tx_accounts, pre_loaders |-> loaders,
                panicked |-> o.panicked,
                calls |-> last.calls + (IF o.invoked THEN 1 ELSE 0),
                entry_accounts |-> last.entry_accounts]
    /\ IF o.panicked
       THEN /\ status' = "panicked"
            /\ UNCHANGED <<instruction_index, result>>
       ELSE /\ instruction_index' = instruction_index + 1
            /\ result' = IF o.err # NoError /\ result.tag = "none"
                         THEN InstructionError(instruction_index, o.err)
                         ELSE result
            /\ UNCHANGED status

\* One iteration of the loop ends: the accounts are as the instruction left
\* them; a panic unwinds, an error returns InstructionError, otherwise the loop
\* goes on to the next instruction.
EndIteration(subset, o) ==
    /\ tx_accounts' = o.tx_accounts
    /\ loaders' = [loaders EXCEPT
                     ![At(tx.instructions, instruction_index).program_ids_index + 1] =
                         o.executable_accounts]
    /\ last' = [index |-> instruction_index, program_accounts |-> subset.refs,
                duplicate |-> subset.err # NoError,
                invoked |-> o.invoked, handler |-> o.handler,
                keyed_accounts |-> o.keyed_accounts, handler_ret |-> o.handler_ret,
                err |-> o.err, pre_accounts |-> tx_accounts, pre_loaders |-> loaders,
                panicked |-> o.panicked,
                calls |-> last.calls + (IF o.invoked THEN 1 ELSE 0),
                entry_accounts |-> last.entry_accounts]
    /\ IF o.panicked
       THEN /\ status' = "panicked"
            /\ UNCHANGED <<instruction_index, result>>
       ELSE IF o.err # NoError
       THEN /\ status' = "failed"
            /\ result' = InstructionError(instruction_index, o.err)
            /\ UNCHANGED instruction_index
       ELSE /\ instruction_index' = instruction_index + 1
            /\ UNCHANGED <<status, result>>

\* Register(id, handler): between transactions only.
AddInstructionProcessor(program_id) ==
    /\ status = "idle"
    /\ Len(instruction_processors) < MaxProcessors
    /\ instruction_processors' = Append(instruction_processors, program_id)
    /\ UNCHANGED <<tx, loaders, tx_accounts, status, instruction_index, result, last>>

\* execute_transaction is called (the account array it is called with is
\* remembered).
Begin ==
    /\ status = "idle"
    /\ status' = "executing"
    /\ instruction_index' = 0
    /\ last' = [last EXCEPT !.entry_accounts = tx_accounts]
    /\ UNCHANGED <<instruction_processors, tx, loaders, tx_accounts, result>>

\* The body of the loop for instruction instruction_index.
Step ==
    /\ status = "executing"
    /\ instruction_index < Len(tx.instructions)
    /\ LET instruction == At(tx.instructions, instruction_index)
           executable_accounts == At(loaders, instruction.program_ids_index)
           subset == get_subset_unchecked_mut(tx_accounts, instruction.accounts)
           NotExecuted(panicked, err) ==
               [panicked |-> panicked, err |-> err, invoked |-> FALSE, handler |-> 0,
                keyed_accounts |-> <<>>, handler_ret |-> NoError,
                tx_accounts |-> tx_accounts, executable_accounts |-> executable_accounts]
       IN  IF subset.panicked \/ subset.err # NoError
           THEN EndIteration(subset, NotExecuted(subset.panicked, subset.err))
           ELSE \E overflow_checks \in BOOLEAN :
                \E h \in IF invokes(instruction_processors, tx, instruction_index,
                                    executable_accounts, tx_accounts, subset.refs,
                                    overflow_checks)
                         THEN Behaviours(dispatch(instruction_processors, tx,
                                                  instruction_index, executable_accounts,
                                                  subset.refs).slice)
                         ELSE {Silent} :
                    EndIteration(subset,
                        execute_instruction(instruction_processors, tx, instruction_index,
                                            executable_accounts, tx_accounts, subset.refs,
                                            h, overflow_checks))
    /\ UNCHANGED <<instruction_processors, tx>>

\* The loop is over: Ok(()).
Return ==
    /\ status = "executing"
    /\ instruction_index = Len(tx.instructions)
    /\ status' = "done"
    /\ result' = Ok
    /\ UNCHANGED <<instruction_processors, tx, loaders, tx_accounts, instruction_index, last>>

-----------------------------------------------------------------------------
(* The inputs of execute_transaction and the specifications *)

Instruction(program_ids_index, accounts) ==
    [program_ids_index |-> program_ids_index, accounts |-> accounts]
\* num_signatures is tx.signatures.len()
Transaction(program_ids, instructions) ==
    [program_ids |-> program_ids, num_signatures |-> 1, instructions |-> instructions]

\* The account-index lists over a two-account array, repeats included.
AccountLists == {<<>>, <<0>>, <<1>>, <<0, 1>>, <<1, 0>>, <<0, 0>>, <<1, 1>>}

\* A loaded executable account, and the loader chains of a slot.
Executable == Account(system_program, 1, <<>>)
LoaderSlots == {<<>>, <<Executable>>, <<Executable, Executable>>}

Scenario(t, l) == [tx |-> t, loaders |-> l]
NoInstruction == {Scenario(Transaction(<<system_program>>, <<>>), <<<<Executable>>>>)}
OneInstruction ==
    {Scenario(Transaction(<<p>>, <<Instruction(0, l)>>), <<slot>>) :
        p \in Pubkeys, l \in AccountLists, slot \in LoaderSlots}
TwoInstructions ==
    {Scenario(Transaction(ids, <<Instruction(0, l1), Instruction(Len(ids) - 1, l2)>>),
              [k \in 1..Len(ids) |-> <<Executable>>]) :
        ids \in {<<mallory_program_id>>, <<alice_program_id, system_program>>,
                 <<system_program, mallory_program_id>>},
        l1 \in {<<0>>, <<0, 1>>}, l2 \in {<<>>, <<1>>, <<1, 1>>}}
Scenarios == NoInstruction \cup OneInstruction \cup TwoInstructions

\* The account arrays a transaction is loaded with.
InitAccounts ==
    {<<Account(system_program, MaxLamports, <<>>), Account(system_program, 0, <<>>)>>,
     <<Account(alice_program_id, 1, <<42>>), Account(mallory_program_id, 1, <<>>)>>,
     <<Account(mallory_program_id, 0, <<>>), Account(mallory_program_id, 0, <<42>>)>>}

\* The program ids add_instruction_processor is called with.
Registered == {system_program, mallory_program_id}

Idle ==
    /\ instruction_processors = <<system_program>>
    /\ status = "idle"
    /\ instruction_index = 0
    /\ result = NoResult
    /\ last = NoLast

Init ==
    /\ Idle
    /\ \E sc \in Scenarios : tx = sc.tx /\ loaders = sc.loaders
    /\ tx_accounts \in InitAccounts

Next ==
    \/ \E program_id \in Registered : AddInstructionProcessor(program_id)
    \/ Begin
    \/ Step
    \/ Return

Spec == Init /\ [][Next]_vars

\* A transaction of more than U8Mod instructions, each of the system program
\* on account 0, run on the default registry.
LongTransaction ==
    Transaction(<<system_program>>,
                [k \in 1..(U8Mod + ExtraInstructions) |-> Instruction(0, <<0>>)])
\* One as long of instructions that list no account, but for the last, which
\* lists account 0 twice.
LongDuplicate ==
    Transaction(<<system_program>>,
                [k \in 1..(U8Mod + ExtraInstructions) |->
                    IF k < U8Mod + ExtraInstructions
                    THEN Instruction(0, <<>>) ELSE Instruction(0, <<0, 0>>)])

InitLong ==
    /\ Idle
    /\ tx \in {LongTransaction, LongDuplicate}
    /\ loaders = <<<<Executable>>>>
    /\ tx_accounts = <<Account(system_program, 1, <<>>), Account(alice_program_id, 1, <<>>)>>

NextLong == Begin \/ Step \/ Return

SpecLong == InitLong /\ [][NextLong]_vars

\* verify_instruction on every program id, pre-state and post-state: one
\* instruction of any program on account 0, which starts as any account value
\* and which the handler leaves as any account value.
InitVerify ==
    /\ Idle
    /\ \E p \in Pubkeys : tx = Transaction(<<p>>, <<Instruction(0, <<0>>)>>)
    /\ loaders = <<<<Executable>>>>
    /\ \E a \in AccountValues : tx_accounts = <<a, Account(system_program, 0, <<>>)>>

SpecVerify == InitVerify /\ [][NextLong]_vars

\* get_subset_unchecked_mut on every index list of at most MaxList indexes
\* into an array of three accounts: one instruction of the system program,
\* whose handler is given exactly the listed accounts.
SubsetAccounts ==
    <<Account(system_program, 1, <<>>), Account(alice_program_id, 0, <<42>>),
      Account(mallory_program_id, 1, <<>>)>>
IndexLists == UNION {[1..n -> 0..(Len(SubsetAccounts) - 1)] : n \in 0..MaxList}
InitSubset ==
    /\ Idle
    /\ \E l \in IndexLists : tx = Transaction(<<system_program>>, <<Instruction(0, l)>>)
    /\ loaders = <<<<Executable>>>>
    /\ tx_accounts = SubsetAccounts

SpecSubset == InitSubset /\ [][NextLong]_vars

-----------------------------------------------------------------------------
(* Vocabulary of the properties: the latest executed instruction *)

Executed == last.index >= 0
\* The invoked program of the latest instruction
Invoked == program_id_of(tx, last.index)
\* The positions of its account list, and the listed accounts at entry and now
Listed == 1..Len(last.program_accounts)
Pre(k) == At(last.pre_accounts, last.program_accounts[k])
Post(k) == At(tx_accounts, last.program_accounts[k])
\* execute_instruction returned Ok(()) / the handler returned Ok(())
Succeeded == Executed /\ ~last.duplicate /\ ~last.panicked /\ last.err = NoError
HandlerSucceeded == Executed /\ last.invoked /\ last.handler_ret = NoError
PreTotal == SeqSum([k \in Listed |-> Pre(k).lamports])
PostTotal == SeqSum([k \in Listed |-> Post(k).lamports])
\* The per-account rules of the verifier, as the specification tabulates them
Accepted(k) ==
    /\ ~(Pre(k).owner # Post(k).owner /\ Invoked # system_program)
    /\ ~(Invoked # Post(k).owner /\ Pre(k).lamports > Post(k).lamports)
    /\ ~(Invoked # Post(k).owner /\ Invoked # system_program /\ Pre(k).data # Post(k).data)
Passed ==
    /\ HandlerSucceeded
    /\ \A k \in Listed : Accepted(k)
    /\ PreTotal % U64Mod = PostTotal % U64Mod

-----------------------------------------------------------------------------
(* Properties *)

\* C1: execute_transaction returns success exactly when every instruction, in
\* order, had no repeated index, a handler that returned success, accounts
\* that all passed verification and balance sums that compared equal; in every
\* other case it returns InstructionError.  Stated per iteration: an
\* instruction that passed lets the loop go on, one that did not ends the call
\* with InstructionError, and Ok is returned only past the last instruction.
C1_SuccessIffAllPassed ==
    /\ Executed =>
          IF Passed
          THEN status \in {"executing", "done"} /\ instruction_index = last.index + 1
          ELSE status = "failed" /\ result.tag = "InstructionError"
    /\ status = "done" => result = Ok /\ instruction_index = Len(tx.instructions)
    /\ result = Ok => status = "done"

\* C2: conservation: after an instruction that succeeded, the exact sum of the
\* balances of its listed accounts equals the exact sum at entry.
C2_Conservation == Succeeded => PostTotal = PreTotal

\* C3: ownership monotonicity: after an instruction that succeeded, a listed
\* account whose owner changed was changed by the system program or was owned
\* by the invoked program at entry.
C3_OwnershipMonotonicity ==
    Succeeded =>
        \A k \in Listed :
            Post(k).owner # Pre(k).owner =>
                Invoked = system_program \/ Pre(k).owner = Invoked
C3_Witness ==
    Succeeded /\ \E k \in Listed : Post(k).owner # Pre(k).owner

\* C4: after an instruction that succeeded, no listed account that the invoked
\* program did not own at entry has a smaller balance, whatever the program.
C4_NoExternalSpend ==
    Succeeded =>
        \A k \in Listed :
            Pre(k).owner # Invoked => Post(k).lamports >= Pre(k).lamports

\* C5: non-owner immutability: after an instruction of a program other than
\* the system program succeeded, a listed account the program does not own, at
\* entry or at exit, has the data it had at entry.
C5_NonOwnerImmutability ==
    (Succeeded /\ Invoked # system_program) =>
        \A k \in Listed :
            (Pre(k).owner # Invoked \/ Post(k).owner # Invoked) =>
                Post(k).data = Pre(k).data
C5_Witness ==
    /\ Succeeded
    /\ Invoked # system_program
    /\ \E k \in Listed : /\ Pre(k).owner # Invoked
                         /\ Post(k).lamports > Pre(k).lamports
                         /\ Pre(k).data = <<42>>

\* An instruction whose handler returned success, gave away the account at
\* position k (owned by the invoked program at entry, by another at exit) and
\* left every listed balance and payload as it was.
GaveAway(k) ==
    /\ HandlerSucceeded
    /\ Pre(k).owner = Invoked
    /\ Post(k).owner # Invoked
    /\ \A j \in Listed : Post(j).lamports = Pre(j).lamports /\ Post(j).data = Pre(j).data

\* C6 (as claimed): a program other than the system program can give away an
\* account it owned: the instruction succeeds.
C6_NonSystemGiveAway ==
    \A k \in Listed : (GaveAway(k) /\ Invoked # system_program) => Succeeded

\* C6 (amended): only the system program can give away an account it owned:
\* the instruction then succeeds; for any other program it fails with
\* ModifiedProgramId.
C6_SystemGiveAway ==
    \A k \in Listed :
        GaveAway(k) =>
            IF Invoked = system_program
            THEN Succeeded
            ELSE ~last.panicked /\ last.err = Err("ModifiedProgramId")
C6_Witness ==
    Succeeded /\ Invoked = system_program /\ \E k \in Listed : GaveAway(k)

\* C7: no-alias: no two elements of the keyed-account slice given to a handler
\* refer to the same account slot, and the references built from the account
\* list point to pairwise distinct slots of the account array.
C7_NoAlias ==
    last.invoked =>
        /\ \A j, k \in 1..Len(last.keyed_accounts) :
              j # k =>
                  \/ last.keyed_accounts[j].array # last.keyed_accounts[k].array
                  \/ last.keyed_accounts[j].slot # last.keyed_accounts[k].slot
        /\ \A j, k \in Listed :
              j # k => last.program_accounts[j] # last.program_accounts[k]
C7_Witness ==
    /\ last.invoked
    /\ Cardinality({k \in 1..Len(last.keyed_accounts) :
                       last.keyed_accounts[k].array = "tx_accounts"}) >= 2

\* C8: custom-error bound: a CustomError returned by execute_instruction, or
\* carried by the InstructionError of execute_transaction, has at most 32 bytes.
C8_CustomErrorBound ==
    /\ (Executed /\ last.err.kind = "CustomError") => Len(last.err.error) <= 32
    /\ (result.tag = "InstructionError" /\ result.err.kind = "CustomError") =>
          Len(result.err.error) <= 32
C8_Witness ==
    /\ last.handler_ret.kind = "CustomError"
    /\ Len(last.handler_ret.error) > 32
    /\ result.tag = "InstructionError"
    /\ result.err = CustomError(Bytes(32))

\* C9: first-failure fidelity: the InstructionError is returned by the
\* iteration of the failing instruction, and from then on no handler is called
\* and no account changes.
C9_FirstFailure ==
    [][/\ result'.tag = "InstructionError" =>
            /\ status' = "failed"
            /\ last'.index = instruction_index'
            /\ last'.calls <= last'.index + 1
       /\ result.tag = "InstructionError" =>
            /\ last'.calls = last.calls
            /\ tx_accounts' = tx_accounts
            /\ loaders' = loaders]_vars
C9_Witness ==
    /\ status = "failed"
    /\ last.index = 0
    /\ Len(tx.instructions) = 2
    /\ last.calls = 1
    /\ tx_accounts # last.pre_accounts

\* C10: the index of the returned InstructionError is the position of the
\* instruction that failed and its kind that instruction's error, whatever the
\* length of the transaction.
C10_IndexIsPosition ==
    status = "failed" =>
        /\ result.tag = "InstructionError"
        /\ result.index = instruction_index
        /\ result.err = last.err

\* C11: when instruction i lists an index twice (every instruction before it
\* having succeeded), execute_transaction returns
\* InstructionError(i, DuplicateAccountIndex), no handler is invoked for
\* instruction i and the account array is as instruction i-1 left it.
C11_DuplicateIndex ==
    (Executed /\ has_duplicates(At(tx.instructions, last.index).accounts)) =>
        /\ status = "failed"
        /\ result = [tag |-> "InstructionError", index |-> last.index,
                     err |-> Err("DuplicateAccountIndex")]
        /\ ~last.invoked
        /\ last.calls = last.index
        /\ tx_accounts = last.pre_accounts
        /\ loaders = last.pre_loaders

\* C12: a transaction runs as Idle -> Executing(0) -> ... -> Done or
\* Failed(i, kind): the instructions run in strictly increasing order, each at
\* most once; Executing(i+1) is entered only after instruction i succeeded and
\* Done only after the last one did; no step leaves Done or Failed; and every
\* other state has a step, so that (the position only growing, up to the
\* number of instructions) every call ends in Done or Failed.
C12_StateMachine ==
    /\ status \in {"idle", "executing", "done", "failed"}
    /\ status = "idle" => ~Executed
    /\ status = "executing" =>
          /\ instruction_index \in 0..Len(tx.instructions)
          /\ last.index = instruction_index - 1
          /\ last.calls <= instruction_index
          /\ Executed => Succeeded
    /\ status = "done" =>
          /\ instruction_index = Len(tx.instructions)
          /\ last.index = instruction_index - 1
          /\ Executed => Succeeded
          /\ result = Ok
    /\ status = "failed" =>
          /\ last.index = instruction_index
          /\ ~Succeeded
          /\ result.tag = "InstructionError" /\ result.err = last.err
    /\ status \in {"done", "failed"} <=> ~ENABLED Next

\* The table of the verifier: the rows in order, each with its condition on
\* the invoked program P, the account before (pre) and after (post).
VerifierRows(P, pre, post) ==
    <<[applies |-> pre.owner # post.owner /\ P # system_program,
       err |-> Err("ModifiedProgramId")],
      [applies |-> P # post.owner /\ pre.lamports > post.lamports,
       err |-> Err("ExternalAccountLamportSpend")],
      [applies |-> P # post.owner /\ P # system_program /\ pre.data # post.data,
       err |-> Err("ExternalAccountDataModified")]>>
FirstRow(rows) ==
    LET matching == {r \in DOMAIN rows : rows[r].applies}
    IN  IF matching = {} THEN NoError
        ELSE rows[CHOOSE r \in matching : \A q \in matching : r <= q].err

\* C13: for every listed account of an executed instruction, verify_instruction
\* on the invoked program, the account's snapshot and its post-state returns
\* the error of the first row of the table that applies, and success when no
\* row applies.
C13_FirstRow ==
    (Executed /\ last.invoked) =>
        \A k \in Listed :
            verify_instruction(Invoked, Pre(k).owner, Pre(k).lamports, Pre(k).data, Post(k))
                = FirstRow(VerifierRows(Invoked, Pre(k), Post(k)))

\* The owner and the balance row both apply to the one listed account: the
\* instruction fails with the error of the earlier row.
C13_Witness ==
    /\ HandlerSucceeded
    /\ Listed = {1}
    /\ VerifierRows(Invoked, Pre(1), Post(1))[1].applies
    /\ VerifierRows(Invoked, Pre(1), Post(1))[2].applies
    /\ VerifierRows(Invoked, Pre(1), Post(1))[3].applies
    /\ last.err = Err("ModifiedProgramId")

\* The handler's error as the caller sees it: a custom payload cut to its
\* first MaxCustomError bytes.
Canonical(err) ==
    IF err.kind = "CustomError"
    THEN CustomError([k \in 1..Min(MaxCustomError, Len(err.error)) |-> err.error[k]])
    ELSE err
\* Per listed account, what the table says of it; the first one that fails.
RowOf(k) == FirstRow(VerifierRows(Invoked, Pre(k), Post(k)))
FirstFailure ==
    LET bad == {k \in Listed : RowOf(k) # NoError}
    IN  IF bad = {} THEN NoError
        ELSE RowOf(CHOOSE k \in bad : \A j \in bad : k <= j)

\* C14: an instruction has at most one error, in this precedence: the
\* handler's error (canonicalized, whatever the post-state); else the
\* verification error of the first listed account that fails; and
\* UnbalancedInstruction only when the handler succeeded, every listed account
\* passed and the balance sums before and after differ.
C14_ErrorPrecedence ==
    /\ (Executed /\ last.invoked /\ last.handler_ret # NoError) =>
          ~last.panicked /\ last.err = Canonical(last.handler_ret)
    /\ (HandlerSucceeded /\ FirstFailure # NoError) =>
          ~last.panicked /\ last.err = FirstFailure
    /\ (Executed /\ last.err = Err("UnbalancedInstruction")) =>
          /\ HandlerSucceeded
          /\ FirstFailure = NoError
          /\ PreTotal # PostTotal

\* The handler succeeded and left two listed accounts that fail different
\* rows: the instruction fails with the error of the first of them.
C14_Witness ==
    /\ HandlerSucceeded
    /\ Listed = {1, 2}
    /\ RowOf(1) # NoError /\ RowOf(2) # NoError /\ RowOf(1) # RowOf(2)
    /\ last.err = RowOf(1)

\* The account-index list of the latest instruction; does it hold one value
\* at two different positions?
Indexes == At(tx.instructions, last.index).accounts
Repeats(xs) == \E i, j \in 1..Len(xs) : i # j /\ xs[i] = xs[j]

C16_Canonicalizer ==
    (Executed /\ last.invoked /\ last.handler_ret # NoError) =>
        LET e == last.handler_ret
            once == verify_error(e)
        IN  /\ e.kind = "CustomError" =>
                  /\ once.kind = "CustomError"
                  /\ Len(once.error) = Min(MaxCustomError, Len(e.error))
                  /\ \A k \in 1..Len(once.error) : once.error[k] = e.error[k]
            /\ e.kind # "CustomError" => once = e
            /\ Len(e.error) <= MaxCustomError => once = e
            /\ verify_error(once) = once
            /\ last.err = once

\* A handler returned a custom error of more than 32 bytes: the instruction
\* fails with its first 32 bytes.
C16_Witness ==
    /\ Executed /\ last.invoked
    /\ last.handler_ret.kind = "CustomError"
    /\ Len(last.handler_ret.error) > MaxCustomError
    /\ last.err = CustomError(SubSeq(last.handler_ret.error, 1, MaxCustomError))
    /\ status = "failed"

\* The registry positions whose id is the invoked program's.
Matching == {k \in 1..Len(instruction_processors) : instruction_processors[k] = Invoked}

\* C17: the registry starts as the one entry of the system program; it changes
\* only by add_instruction_processor appending an entry at its end, never
\* while a transaction executes; and an instruction's handler is that of the
\* first entry with its program id, the native loader exactly when there is no
\* such entry -- so the system program, first in the registry, is always
\* served by the first entry, whatever was registered after.
C17_Registry ==
    /\ instruction_processors = <<system_program>>
    /\ [][/\ instruction_processors' # instruction_processors =>
                /\ status = "idle" /\ status' = "idle"
                /\ \E program_id \in Pubkeys :
                      instruction_processors' = Append(instruction_processors, program_id)
          /\ (last' # last /\ last'.invoked) =>
                /\ last'.handler = 0 <=> Matching' = {}
                /\ Matching' # {} =>
                      /\ last'.handler \in Matching'
                      /\ \A k \in Matching' : last'.handler <= k
                /\ Invoked' = system_program => last'.handler = 1]_vars

\* The system program was registered a second time and an instruction of the
\* system program was dispatched: to the first entry.
C17_Witness ==
    /\ instruction_processors = <<system_program, system_program>>
    /\ Executed /\ last.invoked
    /\ Invoked = system_program
    /\ last.handler = 1

\* The keyed accounts of the latest instruction: those of its loader slot as
\* it was at entry, and one per index of its account list, in list order.
LoaderKeyed ==
    LET slot == At(last.pre_loaders, At(tx.instructions, last.index).program_ids_index)
    IN  [k \in 1..Len(slot) |-> KeyedAccount(FALSE, "executable_accounts", k - 1)]
ListedKeyed ==
    [k \in 1..Len(Indexes) |->
        KeyedAccount(Indexes[k] < tx.num_signatures, "tx_accounts", Indexes[k])]

\* C18: a handler found in the registry is passed the keyed accounts without
\* the first executable-account entry only, so that every listed account
\* reaches it, in list order, whatever the loader slot holds (nothing
\* included); the native loader is passed every keyed account.
C18_HandlerSlice ==
    (Executed /\ last.invoked) =>
        IF last.handler # 0
        THEN last.keyed_accounts =
                (IF LoaderKeyed = <<>> THEN <<>> ELSE Tail(LoaderKeyed)) \o ListedKeyed
        ELSE last.keyed_accounts = LoaderKeyed \o ListedKeyed

\* C19: an instruction changes only the accounts its account list names and
\* its own loader slot: every other element of the account array, and every
\* other loader slot, is after the instruction what it was before, whether
\* the instruction succeeded, failed or never reached its handler; and when
\* no handler ran nothing changed at all (the core's snapshot and
\* verification write to no account).
C19_Frame ==
    Executed =>
        /\ Len(tx_accounts) = Len(last.pre_accounts)
        /\ \A j \in 1..Len(tx_accounts) :
              (\A k \in 1..Len(Indexes) : Indexes[k] # j - 1) =>
                  tx_accounts[j] = last.pre_accounts[j]
        /\ Len(loaders) = Len(last.pre_loaders)
        /\ \A j \in 1..Len(loaders) :
              j # At(tx.instructions, last.index).program_ids_index + 1 =>
                  loaders[j] = last.pre_loaders[j]
        /\ ~last.invoked => tx_accounts = last.pre_accounts /\ loaders = last.pre_loaders

\* An instruction listing account 1 only failed after its handler had changed
\* that account: account 0 is as it was.
C19_Witness ==
    /\ Executed /\ last.invoked
    /\ status = "failed"
    /\ Indexes = <<1>>
    /\ tx_accounts[2] # last.pre_accounts[2]
    /\ tx_accounts[1] = last.pre_accounts[1]

\* The sum of the balances of every element of an account array.
Total(accounts) == SeqSum([k \in 1..Len(accounts) |-> accounts[k].lamports])

\* C20: when execute_transaction returns Ok and the balances of the account
\* array sum to less than 2^64 both at the call and at the return, the two
\* sums are equal, whatever the number of instructions and however their
\* account lists overlap.
C20_TransactionConservation ==
    (status = "done" /\ Total(last.entry_accounts) < U64Mod /\ Total(tx_accounts) < U64Mod) =>
        Total(tx_accounts) = Total(last.entry_accounts)

\* Two instructions whose account lists overlap both succeeded and balances
\* moved between the accounts.
C20_Witness ==
    /\ status = "done"
    /\ Len(tx.instructions) = 2
    /\ At(tx.instructions, 0).accounts = <<0, 1>>
    /\ At(tx.instructions, 1).accounts = <<1>>
    /\ last.invoked
    /\ Total(last.entry_accounts) < U64Mod /\ Total(tx_accounts) < U64Mod
    /\ tx_accounts[1].lamports # last.entry_accounts[1].lamports

=============================================================================
